---------------------------- MODULE Spec2Model ----------------------------
(***************************************************************************)
(* useResource (src/index.tsx): a reducer, resourceManagerReducer, that    *)
(* folds lifecycle actions into a ResourceManager state, and the hook's    *)
(* five promise wrappers (handleGet, handleList, handleUpdate,             *)
(* handleCreate, handleRemove), handleSelect and the memoised `manager`    *)
(* projection.                                                             *)
(*                                                                         *)
(* JavaScript values are represented as follows.                           *)
(*   - strings are TLA+ strings; in a string-typed slot (action, error,    *)
(*     selected, meta.action, meta.error) the value null is the reserved   *)
(*     string `null`, which is none of the ids, verbs or messages;         *)
(*   - a resource or an entry is a function from its own field names to    *)
(*     values (a field the object does not have is not in the DOMAIN);     *)
(*   - in an object-typed slot, null and undefined are the two records     *)
(*     nullRef and undefinedRef, which are no entry;                       *)
(*   - the dictionary state.list is a record [keys, vals]: keys is the     *)
(*     sequence of its own property names in enumeration order, vals maps  *)
(*     each key to its entry.                                              *)
(* dispatch is modelled as applying the reducer at once: actions are       *)
(* applied in the order they are dispatched. Ids are taken not to be names *)
(* of properties inherited from Object.prototype ("constructor", ...), for *)
(* which state.list[id] and acc[id] would find the inherited value.        *)
(***************************************************************************)
EXTENDS Integers, Sequences, FiniteSets, Bags, TLC

\* Bounds of the model.
MaxCalls == 2       \* asynchronous verb invocations in one run
MaxList == 2        \* length of the array a list promise resolves with

\* The inputs.
Ids == {"a", "1"}
Values == {"1"}
Messages == {"boom", "conflict"}

null == "<null>"
nullRef == [jsvalue |-> "null"]
undefinedRef == [jsvalue |-> "undefined"]
EmptyObject == [f \in {} |-> null]

\* Resource payloads: { id } or { id, v }.
Resources ==
  {[id |-> i] : i \in Ids} \cup {[id |-> i, v |-> d] : i \in Ids, d \in Values}

ResourceLists == UNION {[1..n -> Resources] : n \in 0..MaxList}

----------------------------------------------------------------------------
\* JavaScript object semantics used by the reducer and the projection.

\* ToBoolean of a string-or-null value: null and "" are falsy.
TruthyString(x) == x # null /\ x # ""

\* ToBoolean of an object-or-undefined value.
TruthyRef(x) == x # undefinedRef /\ x # nullRef

\* Canonical array-index property names among the ids, with their value.
ArrayIndex == ("1" :> 1)

IsArrayIndex(k) == k \in DOMAIN ArrayIndex

\* { ...x }: the own fields of x; spreading undefined or null gives none.
Spread(x) == IF TruthyRef(x) THEN x ELSE EmptyObject

\* { ...a, ...b }: fields of b win.
Assign(a, b) == b @@ a

EMPTY_LIST == [keys |-> <<>>, vals |-> EmptyObject]

HasKey(d, k) == k \in DOMAIN d.vals

\* d[k]
Lookup(d, k) == IF HasKey(d, k) THEN d.vals[k] ELSE undefinedRef

\* Every new key goes last.
InsertKeyAppends(keys, k) == Append(keys, k)

\* Own property order: array indices ascending, then strings in creation order.
RECURSIVE InsertKey(_, _)
InsertKey(keys, k) ==
  IF keys = <<>> THEN <<k>>
  ELSE IF /\ IsArrayIndex(k)
          /\ \/ ~IsArrayIndex(Head(keys))
             \/ ArrayIndex[k] < ArrayIndex[Head(keys)]
       THEN <<k>> \o keys
       ELSE <<Head(keys)>> \o InsertKey(Tail(keys), k)

\* { ...d, [k]: v }
WithKey(d, k, v) ==
  [keys |-> IF HasKey(d, k) THEN d.keys ELSE InsertKey(d.keys, k),
   vals |-> (k :> v) @@ d.vals]

\* const { [k]: removed, ...rest } = d
WithoutKey(d, k) ==
  [keys |-> SelectSeq(d.keys, LAMBDA x : x # k),
   vals |-> [x \in DOMAIN d.vals \ {k} |-> d.vals[x]]]

\* Object.values(d)
ObjectValues(d) == [n \in 1..Len(d.keys) |-> d.vals[d.keys[n]]]

Meta(a, e) == [action |-> a, error |-> e]

----------------------------------------------------------------------------
\* resourceManagerReducer, one operator per case.

EMPTY_RESOURCE_MANAGER ==
  [list |-> EMPTY_LIST, action |-> null, error |-> null, selected |-> null]

GetStarted(s, a) ==
  [s EXCEPT !.error = null, !.action = "get",
     !.list = WithKey(s.list, a.payload,
                Assign(Spread(Lookup(s.list, a.payload)),
                       [id |-> a.payload, meta |-> Meta("get", null)]))]

UpdateStarted(s, a) ==
  [s EXCEPT !.error = null, !.action = "update",
     !.list = WithKey(s.list, a.payload,
                Assign(Spread(Lookup(s.list, a.payload)),
                       [meta |-> Meta("update", null)]))]

RemoveStarted(s, a) ==
  [s EXCEPT !.error = null, !.action = "remove",
     !.list = WithKey(s.list, a.payload,
                Assign(Spread(Lookup(s.list, a.payload)),
                       [meta |-> Meta("remove", null)]))]

CreateStarted(s, a) == [s EXCEPT !.error = null, !.action = "create"]

ListStarted(s, a) == [s EXCEPT !.error = null, !.action = "list"]

\* The resolved resource is merged into the previous entry.
ResourceResolvedMerges(s, a) ==
  [s EXCEPT !.error = null, !.action = null,
     !.list = WithKey(s.list, a.payload.id,
                Assign(Assign(Spread(Lookup(s.list, a.payload.id)), a.payload),
                       [meta |-> Meta(null, null)]))]

\* A RESOLVED action leaves the pending verb of the entry when an action
\* of another kind started later.
ResourceResolvedKeepsPending(s, a) ==
  LET old == Lookup(s.list, a.payload.id)
      stale == /\ TruthyRef(old)
               /\ old.meta.action # null
               /\ old.meta.action # s.action
  IN [s EXCEPT !.error = null, !.action = null,
        !.list = WithKey(s.list, a.payload.id,
                   Assign(a.payload,
                          [meta |-> IF stale THEN old.meta
                                    ELSE Meta(null, null)]))]

ResourceResolved(s, a) ==
  [s EXCEPT !.error = null, !.action = null,
     !.list = WithKey(s.list, a.payload.id,
                Assign(a.payload, [meta |-> Meta(null, null)]))]

\* action.payload.reduce((acc, resource) => acc[resource.id] ? acc : {...}, {})
RECURSIVE ListReduce(_, _)
ListReduce(acc, payload) ==
  IF payload = <<>> THEN acc
  ELSE LET resource == Head(payload)
       IN ListReduce(
            IF TruthyRef(Lookup(acc, resource.id))
            THEN acc
            ELSE WithKey(acc, resource.id,
                   Assign(resource, [meta |-> Meta(null, null)])),
            Tail(payload))

\* The reduce starts from the existing entries.
ListResolvedMerges(s, a) ==
  [s EXCEPT !.error = null, !.action = null,
     !.list = ListReduce(s.list, a.payload)]

\* A later resource with the same id overwrites an earlier one.
RECURSIVE ListReduceLastWins(_, _)
ListReduceLastWins(acc, payload) ==
  IF payload = <<>> THEN acc
  ELSE LET resource == Head(payload)
       IN ListReduceLastWins(
            WithKey(acc, resource.id,
              Assign(resource, [meta |-> Meta(null, null)])),
            Tail(payload))

ListResolvedLastWins(s, a) ==
  [s EXCEPT !.error = null, !.action = null,
     !.list = ListReduceLastWins(EMPTY_LIST, a.payload)]

ListResolved(s, a) ==
  [s EXCEPT !.error = null, !.action = null,
     !.list = ListReduce(EMPTY_LIST, a.payload)]

\* The selection is not cleared.
RemoveResolvedKeepsSelected(s, a) ==
  [s EXCEPT !.error = null, !.action = null,
     !.list = WithoutKey(s.list, a.payload)]

RemoveResolved(s, a) ==
  [s EXCEPT !.selected = IF s.selected = a.payload THEN null ELSE s.selected,
     !.error = null, !.action = null,
     !.list = WithoutKey(s.list, a.payload)]

\* The entry is replaced by its meta.
ScopedRejectedReplaces(s, a) ==
  [s EXCEPT !.error = a.payload.message, !.action = null,
     !.list = WithKey(s.list, a.payload.id,
                [meta |-> Meta(null, a.payload.message)])]

\* No entry is made for an id that has none.
ScopedRejectedSkipsAbsent(s, a) ==
  IF HasKey(s.list, a.payload.id)
  THEN [s EXCEPT !.error = a.payload.message, !.action = null,
          !.list = WithKey(s.list, a.payload.id,
                     Assign(s.list.vals[a.payload.id],
                            [meta |-> Meta(null, a.payload.message)]))]
  ELSE [s EXCEPT !.error = a.payload.message, !.action = null]

ScopedRejected(s, a) ==
  [s EXCEPT !.error = a.payload.message, !.action = null,
     !.list = WithKey(s.list, a.payload.id,
                Assign(Spread(Lookup(s.list, a.payload.id)),
                       [meta |-> Meta(null, a.payload.message)]))]

CreateRejected(s, a) == [s EXCEPT !.error = a.payload, !.action = null]

\* Only an id that has an entry is selected.
SelectResourceValidates(s, a) ==
  IF HasKey(s.list, a.payload) THEN [s EXCEPT !.selected = a.payload] ELSE s

SelectResource(s, a) == [s EXCEPT !.selected = a.payload]

\* The default case returns the default value of the state parameter.
resourceManagerReducerResets(s, a) ==
  CASE a.type = "GET_RESOURCE_STARTED" -> GetStarted(s, a)
    [] a.type = "UPDATE_RESOURCE_STARTED" -> UpdateStarted(s, a)
    [] a.type = "REMOVE_RESOURCE_STARTED" -> RemoveStarted(s, a)
    [] a.type = "CREATE_RESOURCE_STARTED" -> CreateStarted(s, a)
    [] a.type = "LIST_RESOURCE_STARTED" -> ListStarted(s, a)
    [] a.type \in {"GET_RESOURCE_RESOLVED", "UPDATE_RESOURCE_RESOLVED",
                   "CREATE_RESOURCE_RESOLVED"} -> ResourceResolved(s, a)
    [] a.type = "LIST_RESOURCE_RESOLVED" -> ListResolved(s, a)
    [] a.type = "REMOVE_RESOURCE_RESOLVED" -> RemoveResolved(s, a)
    [] a.type \in {"GET_RESOURCE_REJECTED", "UPDATE_RESOURCE_REJECTED",
                   "REMOVE_RESOURCE_REJECTED"} -> ScopedRejected(s, a)
    [] a.type = "CREATE_RESOURCE_REJECTED" -> CreateRejected(s, a)
    [] a.type = "SELECT_RESOURCE" -> SelectResource(s, a)
    [] OTHER -> EMPTY_RESOURCE_MANAGER

resourceManagerReducer(s, a) ==
  CASE a.type = "GET_RESOURCE_STARTED" -> GetStarted(s, a)
    [] a.type = "UPDATE_RESOURCE_STARTED" -> UpdateStarted(s, a)
    [] a.type = "REMOVE_RESOURCE_STARTED" -> RemoveStarted(s, a)
    [] a.type = "CREATE_RESOURCE_STARTED" -> CreateStarted(s, a)
    [] a.type = "LIST_RESOURCE_STARTED" -> ListStarted(s, a)
    [] a.type \in {"GET_RESOURCE_RESOLVED", "UPDATE_RESOURCE_RESOLVED",
                   "CREATE_RESOURCE_RESOLVED"} -> ResourceResolved(s, a)
    [] a.type = "LIST_RESOURCE_RESOLVED" -> ListResolved(s, a)
    [] a.type = "REMOVE_RESOURCE_RESOLVED" -> RemoveResolved(s, a)
    [] a.type \in {"GET_RESOURCE_REJECTED", "UPDATE_RESOURCE_REJECTED",
                   "REMOVE_RESOURCE_REJECTED"} -> ScopedRejected(s, a)
    [] a.type = "CREATE_RESOURCE_REJECTED" -> CreateRejected(s, a)
    [] a.type = "SELECT_RESOURCE" -> SelectResource(s, a)
    [] OTHER -> s

\* The memoised projection handed to the caller.
manager(s) ==
  [list |-> ObjectValues(s.list),
   selected |-> IF TruthyString(s.selected)
                THEN Lookup(s.list, s.selected) ELSE nullRef,
   action |-> s.action,
   error |-> s.error]

----------------------------------------------------------------------------
\* The hook.
\*   state       the reducer state held by useReducer
\*   inflight    the invocations of asynchronous verbs whose promise has not
\*               settled yet, as a bag of records: the verb, its id argument
\*               and the types of the actions it has dispatched so far
\*   ncalls      the number of invocations made so far
\*   dispatched  the last dispatch: the action, who dispatched it (the
\*               invocation record after this dispatch; for select a record
\*               with verb "select"), what the state was before the action
\*               (the selected id, the keys of state.list and the entry the
\*               action addresses), and, when a handler made it, the promise
\*               that settled and the promise the verb had returned, as that
\*               handler leaves it
\*   history     what the claims about the keys of state.list need of the
\*               past (LoadedAfter, KnownAfter, InsertedAfter)
VARIABLES state, inflight, ncalls, dispatched, history

vars == <<state, inflight, ncalls, dispatched, history>>

Pending == [status |-> "pending", value |-> null]
Fulfilled(v) == [status |-> "fulfilled", value |-> v]
Rejected(v) == [status |-> "rejected", value |-> v]

NoAction == [type |-> "@@INIT"]

Invocation(verb, id, events) == [verb |-> verb, id |-> id, events |-> events]

StartedTypes ==
  {"GET_RESOURCE_STARTED", "UPDATE_RESOURCE_STARTED", "REMOVE_RESOURCE_STARTED"}

ResolvedTypes ==
  {"GET_RESOURCE_RESOLVED", "UPDATE_RESOURCE_RESOLVED", "CREATE_RESOURCE_RESOLVED"}

RejectedTypes ==
  {"GET_RESOURCE_REJECTED", "UPDATE_RESOURCE_REJECTED", "REMOVE_RESOURCE_REJECTED"}

\* The id an action addresses, null when it addresses none.
Target(a) ==
  CASE a.type \in StartedTypes \cup {"REMOVE_RESOURCE_RESOLVED"} -> a.payload
    [] a.type \in ResolvedTypes \cup RejectedTypes -> a.payload.id
    [] OTHER -> null

\* What is remembered of the state an action was applied to.
Before(s, a) ==
  [keys |-> s.list.keys, selected |-> s.selected,
   entry |-> Lookup(s.list, Target(a))]

PayloadIds(payload) == {payload[n].id : n \in DOMAIN payload}

\* Ids that a RESOLVED action of get, update, create or list has carried and
\* that no REMOVE_RESOLVED has removed since.
LoadedAfter(loaded, a) ==
  CASE a.type \in ResolvedTypes -> loaded \cup {a.payload.id}
    [] a.type = "LIST_RESOURCE_RESOLVED" -> loaded \cup PayloadIds(a.payload)
    [] a.type = "REMOVE_RESOURCE_RESOLVED" -> loaded \ {a.payload}
    [] OTHER -> loaded

\* Ids that the last LIST_RESOLVED carried or that a later STARTED, RESOLVED
\* or REJECTED action of get, update, remove or create has addressed, and
\* that no REMOVE_RESOLVED has removed since.
KnownAfter(known, a) ==
  CASE a.type \in StartedTypes \cup ResolvedTypes \cup RejectedTypes
         -> known \cup {Target(a)}
    [] a.type = "LIST_RESOURCE_RESOLVED" -> PayloadIds(a.payload)
    [] a.type = "REMOVE_RESOURCE_RESOLVED" -> known \ {a.payload}
    [] OTHER -> known

\* The ids of a payload, each once, in the order of their first occurrence.
RECURSIVE PayloadOrder(_)
PayloadOrder(payload) ==
  IF payload = <<>> THEN <<>>
  ELSE LET init == PayloadOrder(SubSeq(payload, 1, Len(payload) - 1))
           k == payload[Len(payload)].id
       IN IF \E n \in DOMAIN init : init[n] = k THEN init ELSE Append(init, k)

\* The ids that have an entry, in the order in which their keys were made:
\* LIST_RESOLVED makes the keys anew in the order of its payload, the other
\* actions that address an id make its key if there is none.
InsertedAfter(inserted, a) ==
  CASE a.type \in StartedTypes \cup ResolvedTypes \cup RejectedTypes
         -> IF \E n \in DOMAIN inserted : inserted[n] = Target(a)
            THEN inserted ELSE Append(inserted, Target(a))
    [] a.type = "LIST_RESOURCE_RESOLVED" -> PayloadOrder(a.payload)
    [] a.type = "REMOVE_RESOURCE_RESOLVED"
         -> SelectSeq(inserted, LAMBDA k : k # a.payload)
    [] OTHER -> inserted

Init ==
  /\ state = EMPTY_RESOURCE_MANAGER
  /\ inflight = EmptyBag
  /\ ncalls = 0
  /\ dispatched = [by |-> Invocation("none", null, <<>>), action |-> NoAction,
                   prev |-> Before(EMPTY_RESOURCE_MANAGER, NoAction),
                   promise |-> Pending, returned |-> Pending]
  /\ history = [loaded |-> {}, known |-> {}, inserted |-> <<>>]

dispatch(c, a, promise, returned) ==
  /\ state' = resourceManagerReducer(state, a)
  /\ dispatched' = [by |-> c, action |-> a, prev |-> Before(state, a),
                    promise |-> promise, returned |-> returned]
  /\ history' = [loaded |-> LoadedAfter(history.loaded, a),
                 known |-> KnownAfter(history.known, a),
                 inserted |-> InsertedAfter(history.inserted, a)]

\* A verb is called but its STARTED action is not dispatched by the call.
InvokeDeferred(verb, id, started) ==
  /\ ncalls < MaxCalls
  /\ inflight' = inflight (+) SetToBag({Invocation(verb, id, <<>>)})
  /\ ncalls' = ncalls + 1
  /\ UNCHANGED <<state, dispatched, history>>

\* The synchronous part of a verb: dispatch STARTED, attach the handlers.
Invoke(verb, id, started) ==
  LET c == Invocation(verb, id, <<started.type>>)
  IN /\ ncalls < MaxCalls
     /\ dispatch(c, started, Pending, Pending)
     /\ inflight' = inflight (+) SetToBag({c})
     /\ ncalls' = ncalls + 1

\* The supplied promise fulfils with v and the .then handler runs: it
\* dispatches `resolved` and returns `result`; .catch passes that on.
Then(c, v, resolved, result) ==
  /\ BagIn(c, inflight)
  /\ dispatch([c EXCEPT !.events = Append(@, resolved.type)], resolved,
              Fulfilled(v), Fulfilled(result))
  /\ inflight' = inflight (-) SetToBag({c})
  /\ UNCHANGED ncalls

\* The supplied promise rejects with an Error whose message is m, .then
\* passes it on and the .catch handler runs: it dispatches `rejected` and
\* throws error.message.
Catch(c, m, rejected) ==
  /\ BagIn(c, inflight)
  /\ dispatch([c EXCEPT !.events = Append(@, rejected.type)], rejected,
              Rejected([message |-> m]), Rejected(m))
  /\ inflight' = inflight (-) SetToBag({c})
  /\ UNCHANGED ncalls

handleGet(id) ==
  Invoke("get", id, [type |-> "GET_RESOURCE_STARTED", payload |-> id])

handleGetThen(c, resource) ==
  /\ c.verb = "get"
  /\ Then(c, resource,
          [type |-> "GET_RESOURCE_RESOLVED", payload |-> resource], resource)

handleGetCatch(c, m) ==
  /\ c.verb = "get"
  /\ Catch(c, m, [type |-> "GET_RESOURCE_REJECTED",
                  payload |-> [id |-> c.id, message |-> m]])

handleList ==
  Invoke("list", null, [type |-> "LIST_RESOURCE_STARTED"])

handleListThen(c, list) ==
  /\ c.verb = "list"
  /\ Then(c, list, [type |-> "LIST_RESOURCE_RESOLVED", payload |-> list], list)

handleListCatch(c, m) ==
  /\ c.verb = "list"
  /\ Catch(c, m, [type |-> "LIST_RESOURCE_REJECTED", payload |-> m])

handleUpdate(id) ==
  Invoke("update", id, [type |-> "UPDATE_RESOURCE_STARTED", payload |-> id])

handleUpdateThen(c, resource) ==
  /\ c.verb = "update"
  /\ Then(c, resource,
          [type |-> "UPDATE_RESOURCE_RESOLVED", payload |-> resource], resource)

handleUpdateCatch(c, m) ==
  /\ c.verb = "update"
  /\ Catch(c, m, [type |-> "UPDATE_RESOURCE_REJECTED",
                  payload |-> [id |-> c.id, message |-> m]])

handleCreate ==
  Invoke("create", null, [type |-> "CREATE_RESOURCE_STARTED"])

handleCreateThen(c, resource) ==
  /\ c.verb = "create"
  /\ Then(c, resource,
          [type |-> "CREATE_RESOURCE_RESOLVED", payload |-> resource], resource)

handleCreateCatch(c, m) ==
  /\ c.verb = "create"
  /\ Catch(c, m, [type |-> "CREATE_RESOURCE_REJECTED", payload |-> m])

handleRemove(id) ==
  Invoke("remove", id, [type |-> "REMOVE_RESOURCE_STARTED", payload |-> id])

\* The id is taken from the value the supplied promise fulfils with.
handleRemoveThenUsesResource(c, resource) ==
  /\ c.verb = "remove"
  /\ Then(c, resource,
          [type |-> "REMOVE_RESOURCE_RESOLVED", payload |-> resource.id],
          resource.id)

\* The value the supplied promise fulfils with is not used.
handleRemoveThen(c, resource) ==
  /\ c.verb = "remove"
  /\ Then(c, resource,
          [type |-> "REMOVE_RESOURCE_RESOLVED", payload |-> c.id], c.id)

handleRemoveCatch(c, m) ==
  /\ c.verb = "remove"
  /\ Catch(c, m, [type |-> "REMOVE_RESOURCE_REJECTED",
                  payload |-> [id |-> c.id, message |-> m]])

handleSelect(id) ==
  /\ dispatch(Invocation("select", id, <<"SELECT_RESOURCE">>),
              [type |-> "SELECT_RESOURCE", payload |-> id], Pending, Pending)
  /\ UNCHANGED <<inflight, ncalls>>

Next ==
  \/ \E id \in Ids : handleGet(id)
  \/ \E c \in BagToSet(inflight), r \in Resources : handleGetThen(c, r)
  \/ \E c \in BagToSet(inflight), m \in Messages : handleGetCatch(c, m)
  \/ handleList
  \/ \E c \in BagToSet(inflight), l \in ResourceLists : handleListThen(c, l)
  \/ \E c \in BagToSet(inflight), m \in Messages : handleListCatch(c, m)
  \/ \E id \in Ids : handleUpdate(id)
  \/ \E c \in BagToSet(inflight), r \in Resources : handleUpdateThen(c, r)
  \/ \E c \in BagToSet(inflight), m \in Messages : handleUpdateCatch(c, m)
  \/ handleCreate
  \/ \E c \in BagToSet(inflight), r \in Resources : handleCreateThen(c, r)
  \/ \E c \in BagToSet(inflight), m \in Messages : handleCreateCatch(c, m)
  \/ \E id \in Ids : handleRemove(id)
  \/ \E c \in BagToSet(inflight), r \in Resources : handleRemoveThen(c, r)
  \/ \E c \in BagToSet(inflight), m \in Messages : handleRemoveCatch(c, m)
  \/ \E id \in Ids : handleSelect(id)

Spec == Init /\ [][Next]_vars

\* The asynchronous verbs of the same hook called with three ids, two of
\* them no array index, and with resources that carry nothing but their id:
\* the inputs for the order of the projected list, which no selection
\* changes.
OrderIds == {"a", "b", "1"}
OrderResources == {[id |-> i] : i \in OrderIds}
OrderLists == UNION {[1..n -> OrderResources] : n \in 0..MaxList}
OrderMessages == {"boom"}

NextOrder ==
  \/ \E id \in OrderIds : handleGet(id)
  \/ \E c \in BagToSet(inflight), r \in OrderResources : handleGetThen(c, r)
  \/ \E c \in BagToSet(inflight), m \in OrderMessages : handleGetCatch(c, m)
  \/ handleList
  \/ \E c \in BagToSet(inflight), l \in OrderLists : handleListThen(c, l)
  \/ \E c \in BagToSet(inflight), m \in OrderMessages : handleListCatch(c, m)
  \/ \E id \in OrderIds : handleUpdate(id)
  \/ \E c \in BagToSet(inflight), r \in OrderResources : handleUpdateThen(c, r)
  \/ \E c \in BagToSet(inflight), m \in OrderMessages : handleUpdateCatch(c, m)
  \/ handleCreate
  \/ \E c \in BagToSet(inflight), r \in OrderResources : handleCreateThen(c, r)
  \/ \E c \in BagToSet(inflight), m \in OrderMessages : handleCreateCatch(c, m)
  \/ \E id \in OrderIds : handleRemove(id)
  \/ \E c \in BagToSet(inflight), r \in OrderResources : handleRemoveThen(c, r)
  \/ \E c \in BagToSet(inflight), m \in OrderMessages : handleRemoveCatch(c, m)

SpecOrder == Init /\ [][NextOrder]_vars

----------------------------------------------------------------------------
\* Shorthands for the claims.

Action == dispatched.action
Prev == dispatched.prev
Keys == DOMAIN state.list.vals
Entry(k) == state.list.vals[k]

\* The own fields of an entry other than meta.
Data(e) == [f \in DOMAIN e \ {"meta"} |-> e[f]]

STARTED(verb) ==
  CASE verb = "get" -> "GET_RESOURCE_STARTED"
    [] verb = "list" -> "LIST_RESOURCE_STARTED"
    [] verb = "update" -> "UPDATE_RESOURCE_STARTED"
    [] verb = "create" -> "CREATE_RESOURCE_STARTED"
    [] verb = "remove" -> "REMOVE_RESOURCE_STARTED"

RESOLVED(verb) ==
  CASE verb = "get" -> "GET_RESOURCE_RESOLVED"
    [] verb = "list" -> "LIST_RESOURCE_RESOLVED"
    [] verb = "update" -> "UPDATE_RESOURCE_RESOLVED"
    [] verb = "create" -> "CREATE_RESOURCE_RESOLVED"
    [] verb = "remove" -> "REMOVE_RESOURCE_RESOLVED"

REJECTED(verb) ==
  CASE verb = "get" -> "GET_RESOURCE_REJECTED"
    [] verb = "list" -> "LIST_RESOURCE_REJECTED"
    [] verb = "update" -> "UPDATE_RESOURCE_REJECTED"
    [] verb = "create" -> "CREATE_RESOURCE_REJECTED"
    [] verb = "remove" -> "REMOVE_RESOURCE_REJECTED"

AsyncVerbs == {"get", "list", "update", "create", "remove"}

\* The index of the first resource of a payload that has id k.
FirstIndex(payload, k) ==
  CHOOSE n \in DOMAIN payload :
    /\ payload[n].id = k
    /\ \A m \in 1..(n - 1) : payload[m].id # k

----------------------------------------------------------------------------
\* C1: when the promise given to any asynchronous verb rejects with message
\* m, the .catch handler leaves the global error equal to m and the global
\* action null, and the promise the verb returned rejected with the bare
\* message m.
C1_RejectionRecordedThenReraised ==
  dispatched.promise.status = "rejected" =>
    /\ state.error = dispatched.promise.value.message
    /\ state.action = null
    /\ dispatched.returned = Rejected(dispatched.promise.value.message)

\* C2: when the promise given to list rejects with message m, the resulting
\* state has error = m and action = null, and the entries are unchanged.
C2_ListFailureRecorded ==
  [][dispatched'.action.type = "LIST_RESOURCE_REJECTED" =>
       /\ state'.error = dispatched'.action.payload
       /\ state'.action = null
       /\ state'.list = state.list]_vars

\* C3: an invocation of an asynchronous verb dispatches its STARTED action
\* at the call (the state shows the verb as pending and the invocation is in
\* flight, its promise not settled), every invocation in flight has
\* dispatched its STARTED action and nothing else, and a handler that runs
\* leaves the invocation with exactly two dispatched actions: STARTED, then
\* RESOLVED if the promise fulfilled and REJECTED if it rejected; the
\* invocation is then in flight no more, unless an equal one still is.
C3_StartedThenOneSettlement ==
  /\ \A c \in BagToSet(inflight) :
       c.verb \in AsyncVerbs /\ c.events = <<STARTED(c.verb)>>
  /\ BagCardinality(inflight) <= ncalls
  /\ (dispatched.by.verb \in AsyncVerbs /\ dispatched.promise.status = "pending")
       => /\ Action.type = STARTED(dispatched.by.verb)
          /\ dispatched.by.events = <<Action.type>>
          /\ BagIn(dispatched.by, inflight)
          /\ state.action = dispatched.by.verb
  /\ dispatched.promise.status = "fulfilled"
       => /\ Action.type = RESOLVED(dispatched.by.verb)
          /\ dispatched.by.events = <<STARTED(dispatched.by.verb), Action.type>>
          /\ dispatched.returned.status = "fulfilled"
  /\ dispatched.promise.status = "rejected"
       => /\ Action.type = REJECTED(dispatched.by.verb)
          /\ dispatched.by.events = <<STARTED(dispatched.by.verb), Action.type>>
          /\ dispatched.returned.status = "rejected"

\* C3 witness: a promise has rejected while another invocation is in flight.
C3_Witness ==
  /\ dispatched.promise.status = "rejected"
  /\ Len(dispatched.by.events) = 2
  /\ BagCardinality(inflight) = 1

C5_RemoveResolvedSelectedIff ==
  Action.type = "REMOVE_RESOURCE_RESOLVED" =>
    /\ Action.payload \notin Keys
    /\ (state.selected = null <=> Prev.selected = Action.payload)

\* C5, amended: after REMOVE_RESOLVED(id) the entries have no key id;
\* selected is null exactly when it equaled id or was null before, and a
\* selected id other than id is kept.
C5_RemoveResolvedClearsSelected ==
  Action.type = "REMOVE_RESOURCE_RESOLVED" =>
    /\ Action.payload \notin Keys
    /\ (state.selected = null <=> Prev.selected \in {null, Action.payload})
    /\ Prev.selected # Action.payload => state.selected = Prev.selected

\* C5 witness: REMOVE_RESOLVED for the selected id, which had an entry.
C5_Witness ==
  /\ Action.type = "REMOVE_RESOURCE_RESOLVED"
  /\ Prev.selected = Action.payload
  /\ \E n \in DOMAIN Prev.keys : Prev.keys[n] = Action.payload

\* C6, as claimed: the keys of the entries are exactly the ids a RESOLVED
\* action of get, list, create or update has carried and no REMOVE_RESOLVED
\* has removed since.
C6_KeysAreLoadedIds == Keys = history.loaded

\* C6, amended: the keys of the entries are exactly the ids that the last
\* LIST_RESOLVED carried or that a later STARTED or REJECTED action of get,
\* update or remove or a later RESOLVED action of get, update or create has
\* addressed, and that no REMOVE_RESOLVED has removed since. The STARTED and
\* REJECTED actions of get, update and remove add the key of their id, and
\* LIST_RESOLVED deletes the keys its list does not carry.
C6_KeysAreKnownIds == Keys = history.known

\* C6 witness: a REJECTED action has made an entry for an id that had none
\* and that no RESOLVED action has carried.
C6_Witness ==
  /\ Action.type \in RejectedTypes
  /\ ~TruthyRef(Prev.entry)
  /\ Action.payload.id \in Keys \ history.loaded

\* C7: GET_REJECTED, UPDATE_REJECTED or REMOVE_REJECTED({id, message}) leaves
\* action null and error = message, leaves an entry under id whose meta is
\* exactly {action: null, error: message}, and changes no other field of
\* that entry (an id that had no entry gets one with no other field).
C7_ScopedRejection ==
  Action.type \in RejectedTypes =>
    /\ state.action = null
    /\ state.error = Action.payload.message
    /\ Action.payload.id \in Keys
    /\ Entry(Action.payload.id).meta = Meta(null, Action.payload.message)
    /\ Data(Entry(Action.payload.id)) = Data(Spread(Prev.entry))

\* C7 witness: a scoped rejection for an id whose entry carries data.
C7_Witness ==
  /\ Action.type \in RejectedTypes
  /\ TruthyRef(Prev.entry)
  /\ "v" \in DOMAIN Prev.entry
  /\ Prev.entry.meta.action # null

\* C8: the projection's selected is entries[state.selected] when
\* state.selected is not null and has an entry, and null in every other case.
C8_ProjectionSelected ==
  manager(state).selected =
    IF state.selected # null /\ state.selected \in Keys
    THEN Entry(state.selected) ELSE nullRef

\* C9: after GET_RESOLVED, UPDATE_RESOLVED or CREATE_RESOLVED with resource
\* r, action and error are null and entries[r.id] has exactly the fields of
\* r, with r's values, plus meta = {action: null, error: null}.
C9_ResolvedReplacesEntry ==
  Action.type \in ResolvedTypes =>
    /\ state.action = null
    /\ state.error = null
    /\ Action.payload.id \in Keys
    /\ DOMAIN Entry(Action.payload.id) = DOMAIN Action.payload \cup {"meta"}
    /\ \A f \in DOMAIN Action.payload :
         Entry(Action.payload.id)[f] = Action.payload[f]
    /\ Entry(Action.payload.id).meta = Meta(null, null)

\* C9 witness: the previous entry had a field v, the resource has none.
C9_Witness ==
  /\ Action.type \in ResolvedTypes
  /\ TruthyRef(Prev.entry)
  /\ "v" \in DOMAIN Prev.entry
  /\ "v" \notin DOMAIN Action.payload

\* C10: after LIST_RESOLVED, the entry of every id of the payload carries
\* the data of the first resource of the payload with that id.
C10_ListFirstOccurrenceWins ==
  Action.type = "LIST_RESOURCE_RESOLVED" =>
    \A n \in DOMAIN Action.payload :
      /\ Action.payload[n].id \in Keys
      /\ Data(Entry(Action.payload[n].id))
           = Action.payload[FirstIndex(Action.payload, Action.payload[n].id)]

\* C10 witness: the payload carries the same id twice with different data.
C10_Witness ==
  /\ Action.type = "LIST_RESOURCE_RESOLVED"
  /\ \E n, m \in DOMAIN Action.payload :
       /\ n < m
       /\ Action.payload[n].id = Action.payload[m].id
       /\ Action.payload[n] # Action.payload[m]
       /\ Data(Entry(Action.payload[n].id)) = Action.payload[n]

\* The position of k in a sequence that holds it.
Pos(seq, k) == CHOOSE n \in DOMAIN seq : seq[n] = k

Holds(seq, k) == \E n \in DOMAIN seq : seq[n] = k

\* The array indices among ids, ascending.
RECURSIVE Ascending(_)
Ascending(ids) ==
  IF ids = {} THEN <<>>
  ELSE LET least == CHOOSE k \in ids : \A x \in ids : ArrayIndex[k] <= ArrayIndex[x]
       IN <<least>> \o Ascending(ids \ {least})

\* The order the amended C11 expects of ids whose keys were made in the
\* order `inserted`.
IndicesFirst(inserted) ==
  Ascending({inserted[n] : n \in DOMAIN inserted} \cap DOMAIN ArrayIndex)
    \o SelectSeq(inserted, LAMBDA k : k \notin DOMAIN ArrayIndex)

C12_ReturnedValue ==
  dispatched.promise.status = "fulfilled" =>
    /\ dispatched.returned.status = "fulfilled"
    /\ IF dispatched.by.verb = "remove"
       THEN dispatched.returned.value = dispatched.by.id
       ELSE dispatched.returned.value = dispatched.promise.value

\* C12 witness: the promise given to remove fulfilled with a resource of
\* another id.
C12_Witness ==
  /\ dispatched.promise.status = "fulfilled"
  /\ dispatched.by.verb = "remove"
  /\ dispatched.promise.value.id # dispatched.by.id
  /\ dispatched.returned = Fulfilled(dispatched.by.id)

\* The action types resourceManagerReducer has a case for.
CaseTypes ==
  StartedTypes \cup ResolvedTypes \cup RejectedTypes
    \cup {"CREATE_RESOURCE_STARTED", "LIST_RESOURCE_STARTED",
          "LIST_RESOURCE_RESOLVED", "REMOVE_RESOURCE_RESOLVED",
          "CREATE_RESOURCE_REJECTED", "SELECT_RESOURCE"}

\* C13: an action whose type the reducer has no case for leaves the state
\* as it is: the one the hook dispatches (LIST_RESOURCE_REJECTED), and an
\* action of a type that does not exist, applied to any reachable state.
C13_UnknownActionIsNoOp ==
  [][/\ dispatched'.action.type \notin CaseTypes => state' = state
     /\ resourceManagerReducer(state, [type |-> "UNKNOWN", payload |-> "a"])
          = state]_vars

\* C13 witness: an action without a case was applied to a state with an
\* entry, a selection and a pending verb.
C13_Witness ==
  /\ Action.type \notin CaseTypes \cup {NoAction.type}
  /\ Keys # {}
  /\ state.selected # null
  /\ state.action # null

\* C14: when no invocation of an asynchronous verb is in flight, the global
\* action is null.
C14_IdleMeansNoAction == inflight = EmptyBag => state.action = null

\* C15: a non-null meta.action of an entry names a verb that is in flight
\* for the id of that entry; with none in flight for the id, it is null.
C15_MetaActionIsPending ==
  \A k \in Keys :
    Entry(k).meta.action # null =>
      \E c \in BagToSet(inflight) : c.id = k /\ c.verb = Entry(k).meta.action

ScopedVerbs == {"get", "update", "remove"}

\* C16: no action dispatched by an invocation of get, update or remove for
\* an id changes the entry of another id.
C16_OtherEntriesUntouched ==
  [][dispatched'.by.verb \in ScopedVerbs =>
       \A k \in (DOMAIN state.list.vals \cup DOMAIN state'.list.vals)
                  \ {dispatched'.by.id} :
         Lookup(state'.list, k) = Lookup(state.list, k)]_vars

C18_GlobalFlagsLastWriteWins ==
  \A verb \in AsyncVerbs :
    /\ Action.type = STARTED(verb)
         => state.action = verb /\ state.error = null
    /\ Action.type = RESOLVED(verb)
         => state.action = null /\ state.error = null
    /\ Action.type = REJECTED(verb)
         => /\ state.action = null
            /\ state.error = dispatched.promise.value.message

\* C19: SELECT(id) sets selected to id and leaves entries, action and error
\* unchanged; and selected changes only by a SELECT action or by the
\* REMOVE_RESOLVED of the selected id, which makes it null.
C19_SelectFrame ==
  [][/\ dispatched'.action.type = "SELECT_RESOURCE" =>
          /\ state'.selected = dispatched'.action.payload
          /\ state'.list = state.list
          /\ state'.action = state.action
          /\ state'.error = state.error
     /\ state'.selected # state.selected =>
          \/ dispatched'.action.type = "SELECT_RESOURCE"
          \/ /\ dispatched'.action.type = "REMOVE_RESOURCE_RESOLVED"
             /\ dispatched'.action.payload = state.selected
             /\ state'.selected = null]_vars

\* C19 witness: an id without an entry is selected while a verb is pending
\* and another id has an entry.
C19_Witness ==
  /\ Action.type = "SELECT_RESOURCE"
  /\ state.selected = Action.payload
  /\ state.selected \notin Keys
  /\ Keys # {}
  /\ state.action # null

\* C20: every entry stored under key k has an id field equal to k.
C20_EntriesCarryTheirId ==
  \A k \in Keys : "id" \in DOMAIN Entry(k) /\ Entry(k).id = k

=============================================================================
